---------------------------- MODULE Spec2Model ----------------------------
(***************************************************************************)
(* Model of rust_processor/src/lib.rs: the record normalizer               *)
(* (TickData::from_py_dict) and the bulk loader (insert_ticks_bulk) with   *)
(* its storage session (connection, prepared statement, transaction) and   *)
(* its progress reporter.                                                  *)
(***************************************************************************)
EXTENDS Integers, Sequences, FiniteSets, TLC

(***************************************************************************)
(* Numbers.  TLC integers are 32-bit, Python integers are unbounded and    *)
(* steam_id is 64-bit, so an integer is kept as sign and magnitude, the    *)
(* magnitude in three limbs of 31 bits: hi * 2^62 + mid * 2^31 + lo.       *)
(* The modelled integers have hi < 2^21.                                   *)
(***************************************************************************)
I32Max == 2147483647

LimbMax == I32Max

I32Min == -2147483647 - 1

Mag(neg, hi, mid, lo) == [neg |-> neg, hi |-> hi, mid |-> mid, lo |-> lo]

MagZero == Mag(FALSE, 0, 0, 0)

\* v as a sign-magnitude number, for -2^31 < v < 2^31
SmallMag(v) == IF v < 0 THEN Mag(TRUE, 0, 0, -v) ELSE Mag(FALSE, 0, 0, v)

IsZeroMag(m) == m.hi = 0 /\ m.mid = 0 /\ m.lo = 0

\* m fits a signed 32-bit integer: |m| < 2^31, or m = -2^31
FitsI32(m) ==
    \/ m.hi = 0 /\ m.mid = 0
    \/ m.neg /\ m.hi = 0 /\ m.mid = 1 /\ m.lo = 0

\* the 32-bit value of m, for FitsI32(m)
AsI32(m) ==
    IF m.mid = 1 THEN I32Min
    ELSE IF m.neg THEN -m.lo ELSE m.lo

\* m fits a signed 64-bit integer: |m| < 2^63, or m = -2^63
FitsI64(m) ==
    \/ m.hi <= 1
    \/ m.neg /\ m.hi = 2 /\ m.mid = 0 /\ m.lo = 0

\* the 64-bit value of m, for FitsI64(m): zero carries no sign
AsI64(m) == IF IsZeroMag(m) THEN MagZero ELSE m

RECURSIVE BitLen(_)
BitLen(n) == IF n = 0 THEN 0 ELSE 1 + BitLen(n \div 2)

RECURSIVE Pow2(_)
Pow2(k) == IF k = 0 THEN 1 ELSE 2 * Pow2(k - 1)

MagBits(m) ==
    IF m.hi > 0 THEN 62 + BitLen(m.hi)
    ELSE IF m.mid > 0 THEN 31 + BitLen(m.mid)
    ELSE BitLen(m.lo)

(***************************************************************************)
(* A double is finite (sign, integral magnitude, quarters q in 0..3), an   *)
(* infinity or a NaN.  Only exactly representable values are built.        *)
(***************************************************************************)
F64(k, neg, hi, mid, lo, q) ==
    [k |-> k, neg |-> neg, hi |-> hi, mid |-> mid, lo |-> lo, q |-> q]

F64Zero == F64("fin", FALSE, 0, 0, 0, 0)

\* one more in the limb above lo, carrying into hi
CarryMid(m) ==
    IF m.mid = LimbMax THEN Mag(m.neg, m.hi + 1, 0, 0)
    ELSE Mag(m.neg, m.hi, m.mid + 1, 0)

\* the magnitude of m rounded to 53 significant bits, ties to even
\* (the conversion of a Python integer to a C double)
RoundTo53(m) ==
    LET k == MagBits(m) - 53 IN
    IF k <= 0 THEN m
    ELSE LET p    == Pow2(k)
             r    == m.lo % p
             down == m.lo - r
             half == p \div 2
             up   == r > half \/ (r = half /\ (m.lo \div p) % 2 = 1)
         IN  IF ~up THEN Mag(m.neg, m.hi, m.mid, down)
             ELSE IF down = (LimbMax - p) + 1 THEN CarryMid(m)
             ELSE Mag(m.neg, m.hi, m.mid, down + p)

IntToF64(m) ==
    LET r == RoundTo53(m) IN F64("fin", r.neg, r.hi, r.mid, r.lo, 0)

(***************************************************************************)
(* Python objects.  Every object has the same shape; t is its type.        *)
(*   "none"   None                                                         *)
(*   "int"    an integer, n its value                                      *)
(*   "bool"   True or False (a subclass of int), b its value               *)
(*   "float"  a float, f its value                                         *)
(*   "str"    a string, s its text; utf8 = FALSE for a string holding a    *)
(*            lone surrogate, which has no UTF-8 form                      *)
(*   "list"   an object that is none of these and converts to none         *)
(***************************************************************************)
PyObj(t, n, f, s, b, utf8) ==
    [t |-> t, n |-> n, f |-> f, s |-> s, b |-> b, utf8 |-> utf8]

PyNone == PyObj("none", MagZero, F64Zero, "", FALSE, TRUE)

PyInt(m) == PyObj("int", m, F64Zero, "", FALSE, TRUE)

PyBool(b) == PyObj("bool", MagZero, F64Zero, "", b, TRUE)

PyFloat(f) == PyObj("float", MagZero, f, "", FALSE, TRUE)

PyStr(s) == PyObj("str", MagZero, F64Zero, s, FALSE, TRUE)

PyStrSurrogate(s) == PyObj("str", MagZero, F64Zero, s, FALSE, FALSE)

PyListObj == PyObj("list", MagZero, F64Zero, "", FALSE, TRUE)

(***************************************************************************)
(* extract::<T>(): [ok, v].  v is meaningful only when ok.                 *)
(***************************************************************************)
\* the integer an object gives through __index__: int and bool only
IndexOf(o) ==
    IF o.t = "int" THEN [ok |-> TRUE, v |-> o.n]
    ELSE IF o.t = "bool"
         THEN [ok |-> TRUE, v |-> IF o.b THEN SmallMag(1) ELSE MagZero]
    ELSE [ok |-> FALSE, v |-> MagZero]

\* the low 32 bits of m as a signed value, what a truncating cast keeps
Wrap32(m) ==
    LET w == IF m.mid % 2 = 1 THEN m.lo + I32Min ELSE m.lo
    IN  IF m.neg /\ w # I32Min THEN -w ELSE w

\* mutant: the integer is cast to 32 bits and not checked against the range
extract_i32_wrap(o) ==
    LET i == IndexOf(o) IN
    IF i.ok THEN [ok |-> TRUE, v |-> Wrap32(i.v)]
    ELSE [ok |-> FALSE, v |-> 0]

extract_i32(o) ==
    LET i == IndexOf(o) IN
    IF i.ok /\ FitsI32(i.v) THEN [ok |-> TRUE, v |-> AsI32(i.v)]
    ELSE [ok |-> FALSE, v |-> 0]

extract_i64(o) ==
    LET i == IndexOf(o) IN
    IF i.ok /\ FitsI64(i.v) THEN [ok |-> TRUE, v |-> AsI64(i.v)]
    ELSE [ok |-> FALSE, v |-> MagZero]

extract_f64(o) ==
    LET i == IndexOf(o) IN
    IF o.t = "float" THEN [ok |-> TRUE, v |-> o.f]
    ELSE IF i.ok THEN [ok |-> TRUE, v |-> IntToF64(i.v)]
    ELSE [ok |-> FALSE, v |-> F64Zero]

extract_String(o) ==
    IF o.t = "str" /\ o.utf8 THEN [ok |-> TRUE, v |-> o.s]
    ELSE [ok |-> FALSE, v |-> ""]

extract_bool(o) ==
    IF o.t = "bool" THEN [ok |-> TRUE, v |-> o.b]
    ELSE [ok |-> FALSE, v |-> FALSE]

\* mutant: unwrap_or_default() in place of unwrap_or(d): the default of the
\* type, whatever the field
unwrap_or_default(r, d) == r.v

\* Result::unwrap_or(d), unwrap_or_else(|_| d)
unwrap_or(r, d) == IF r.ok THEN r.v ELSE d

(***************************************************************************)
(* A dict has d, a function from its string keys to objects, and raises,   *)
(* the strings whose lookup in it raises: the dict holds a key with the    *)
(* hash of that string whose comparison with it raises an exception.       *)
(***************************************************************************)
\* mutant: a lookup that raises is read as an absent key
get_item_lenient(dict, key) ==
    [ok |-> TRUE, v |-> IF key \in DOMAIN dict.d /\ key \notin dict.raises
                        THEN dict.d[key] ELSE PyNone]

\* dict.get_item(key), with unwrap_or_default() on what it finds: Err when
\* the lookup raises; else Ok of the value under the key, or for an absent
\* key of a default object, which no extract accepts
get_item(dict, key) ==
    IF key \in dict.raises THEN [ok |-> FALSE, v |-> PyNone]
    ELSE [ok |-> TRUE, v |-> IF key \in DOMAIN dict.d THEN dict.d[key] ELSE PyNone]

(***************************************************************************)
(* TickData::from_py_dict                                                  *)
(***************************************************************************)
\* the 19 keys looked up, in the order of the fields of the struct
FieldKeys ==
    <<"tick", "roundNum", "seconds", "clockTime", "tScore", "ctScore", "steamID",
      "name", "team", "side", "isAlive", "hp", "armor", "x", "y", "z", "viewX",
      "viewY", "activeWeapon">>

\* the places in FieldKeys of the keys whose lookup fails
FailedLookups(dict) == {i \in DOMAIN FieldKeys : ~get_item(dict, FieldKeys[i]).ok}

\* the first key whose lookup fails: the ? after its get_item returns
FirstFailed(dict) ==
    FieldKeys[CHOOSE i \in FailedLookups(dict) : \A j \in FailedLookups(dict) : i <= j]

\* the 19 fields read from the record, each with its own default, when every
\* lookup succeeds
record_fields(dict) ==
    [ tick          |-> unwrap_or(extract_i32(get_item(dict, "tick").v), 0),
      round_num     |-> unwrap_or(extract_i32(get_item(dict, "roundNum").v), 0),
      seconds       |-> unwrap_or(extract_f64(get_item(dict, "seconds").v), F64Zero),
      clock_time    |-> unwrap_or(extract_String(get_item(dict, "clockTime").v), ""),
      t_score       |-> unwrap_or(extract_i32(get_item(dict, "tScore").v), 0),
      ct_score      |-> unwrap_or(extract_i32(get_item(dict, "ctScore").v), 0),
      steam_id      |-> unwrap_or(extract_i64(get_item(dict, "steamID").v), MagZero),
      name          |-> unwrap_or(extract_String(get_item(dict, "name").v), ""),
      team          |-> unwrap_or(extract_String(get_item(dict, "team").v), ""),
      side          |-> unwrap_or(extract_String(get_item(dict, "side").v), ""),
      is_alive      |-> unwrap_or(extract_bool(get_item(dict, "isAlive").v), TRUE),
      hp            |-> unwrap_or(extract_i32(get_item(dict, "hp").v), 100),
      armor         |-> unwrap_or(extract_i32(get_item(dict, "armor").v), 0),
      x             |-> unwrap_or(extract_f64(get_item(dict, "x").v), F64Zero),
      y             |-> unwrap_or(extract_f64(get_item(dict, "y").v), F64Zero),
      z             |-> unwrap_or(extract_f64(get_item(dict, "z").v), F64Zero),
      view_x        |-> unwrap_or(extract_f64(get_item(dict, "viewX").v), F64Zero),
      view_y        |-> unwrap_or(extract_f64(get_item(dict, "viewY").v), F64Zero),
      active_weapon |-> unwrap_or(extract_String(get_item(dict, "activeWeapon").v), "") ]

\* mutant: the two batch constants are read from the record when it has them
from_py_dict_read(dict, demo_fn, map_nm) ==
    IF FailedLookups(dict) # {}
    THEN [ok |-> FALSE, v |-> <<>>, key |-> FirstFailed(dict)]
    ELSE [ok |-> TRUE,
          v |-> record_fields(dict)
                @@ [demo_filename |->
                        unwrap_or(extract_String(get_item(dict, "demo_filename").v),
                                  demo_fn),
                    map_name |->
                        unwrap_or(extract_String(get_item(dict, "map_name").v),
                                  map_nm)],
          key |-> ""]

\* PyResult<TickData>: Err with the exception of the first lookup that raises
\* (key names the lookup), else Ok of the row
from_py_dict(dict, demo_fn, map_nm) ==
    IF FailedLookups(dict) # {}
    THEN [ok |-> FALSE, v |-> <<>>, key |-> FirstFailed(dict)]
    ELSE [ok |-> TRUE,
          v |-> record_fields(dict) @@ [demo_filename |-> demo_fn, map_name |-> map_nm],
          key |-> ""]

(***************************************************************************)
(* The elements of the input list: a dict, a dict in which lookups raise,   *)
(* or an object that is no dict.                                           *)
(***************************************************************************)
EmptyDict == [k \in {} |-> PyNone]

\* a dict with string keys only
DictItem(d) == [isdict |-> TRUE, d |-> d, raises |-> {}]

\* a dict in which the lookup of the strings r raises
RaisingItem(d, r) == [isdict |-> TRUE, d |-> d, raises |-> r]

NotADict == [isdict |-> FALSE, d |-> EmptyDict, raises |-> {}]

\* mutant: an object that is no dict is read as an empty one
downcast_lenient(item) == [ok |-> TRUE, v |-> item]

\* item.downcast::<PyDict>(): the object itself, as a dict, when it is one
downcast_PyDict(item) == [ok |-> item.isdict, v |-> item]

(***************************************************************************)
(* The inputs the model draws from.                                        *)
(***************************************************************************)
\* the longest input list
MaxN == 3

IntObj(v) == PyInt(SmallMag(v))

Flt(neg, lo, q) == PyFloat(F64("fin", neg, 0, 0, lo, q))

\* the example record of the specification
RecExample ==
    [k \in {"tick", "steamID", "isAlive"} |->
        CASE k = "tick" -> IntObj(1)
          [] k = "steamID" -> IntObj(123)
          [] OTHER -> PyBool(FALSE)]

\* a record with every field present and of its declared type, which also
\* carries keys named like the two batch constants
RecFull ==
    [k \in {"tick", "roundNum", "seconds", "clockTime", "tScore", "ctScore",
            "steamID", "name", "team", "side", "isAlive", "hp", "armor",
            "x", "y", "z", "viewX", "viewY", "activeWeapon",
            "demo_filename", "map_name"} |->
        CASE k = "tick" -> IntObj(640)
          [] k = "roundNum" -> IntObj(3)
          [] k = "seconds" -> Flt(FALSE, 12, 2)
          [] k = "clockTime" -> PyStr("01:43")
          [] k = "tScore" -> IntObj(2)
          [] k = "ctScore" -> IntObj(1)
          [] k = "steamID" -> PyInt(Mag(FALSE, 0, 35555555, 1234567))
          [] k = "name" -> PyStr("s1mple")
          [] k = "team" -> PyStr("NaVi")
          [] k = "side" -> PyStr("CT")
          [] k = "isAlive" -> PyBool(FALSE)
          [] k = "hp" -> IntObj(87)
          [] k = "armor" -> IntObj(50)
          [] k = "x" -> Flt(TRUE, 1024, 1)
          [] k = "y" -> Flt(FALSE, 300, 0)
          [] k = "z" -> Flt(FALSE, 64, 3)
          [] k = "viewX" -> Flt(TRUE, 90, 0)
          [] k = "viewY" -> Flt(FALSE, 45, 2)
          [] k = "activeWeapon" -> PyStr("AWP")
          [] k = "demo_filename" -> PyStr("other.dem")
          [] OTHER -> PyStr("de_other")]

Keys == DOMAIN RecFull

\* the objects a key is given in the one-key variations of RecFull
SampleObjects ==
    { PyNone, PyListObj, PyBool(TRUE), PyBool(FALSE),
      PyStr(""), PyStr("abc"), PyStr("7"), PyStrSurrogate("bad"),
      IntObj(0), IntObj(1), IntObj(-1), IntObj(7),
      PyInt(Mag(FALSE, 0, 0, I32Max)),         \*  2^31 - 1
      PyInt(Mag(FALSE, 0, 1, 0)),              \*  2^31
      PyInt(Mag(TRUE, 0, 1, 0)),               \* -2^31
      PyInt(Mag(TRUE, 0, 1, 1)),               \* -2^31 - 1
      PyInt(Mag(FALSE, 0, 4194304, 1)),        \*  2^53 + 1
      PyInt(Mag(FALSE, 1, LimbMax, LimbMax)),  \*  2^63 - 1
      PyInt(Mag(FALSE, 2, 0, 0)),              \*  2^63
      PyInt(Mag(TRUE, 2, 0, 0)),               \* -2^63
      PyInt(Mag(TRUE, 2, 0, 1)),               \* -2^63 - 1
      Flt(FALSE, 0, 0), Flt(FALSE, 3, 0), Flt(TRUE, 2, 1),
      PyFloat(F64("nan", FALSE, 0, 0, 0, 0)),
      PyFloat(F64("inf", TRUE, 0, 0, 0, 0)) }

\* RecFull with key k given the object o
WithKey(k, o) == [j \in Keys |-> IF j = k THEN o ELSE RecFull[j]]

\* RecFull without key k
WithoutKey(k) == [j \in Keys \ {k} |-> RecFull[j]]

\* the record {Evil(): 1, "hp": 5}, Evil() a key with the hash of "tick"
\* whose comparison raises
RecRaising == RaisingItem([k \in {"hp"} |-> IntObj(5)], {"tick"})

SmallItems ==
    {DictItem(RecExample), DictItem(RecFull), DictItem(EmptyDict), RecRaising, NotADict}

VariedItems ==
    SmallItems
    \cup {DictItem(WithKey(k, o)) : k \in Keys, o \in SampleObjects}
    \cup {DictItem(WithoutKey(k)) : k \in Keys}
    \cup {RaisingItem(RecFull, {k}) : k \in Keys}
    \cup {RaisingItem(WithoutKey(k), {k}) : k \in Keys}
    \cup {RaisingItem(RecFull, {"hp", "roundNum"})}

DemoNames == {"m1.dem", "m2.dem"}

MapNames == {"de_dust2"}

RECURSIVE SeqsUpTo(_, _)
SeqsUpTo(S, n) ==
    IF n = 0 THEN {<<>>}
    ELSE LET shorter == SeqsUpTo(S, n - 1) IN
         shorter \cup {Append(s, e) : s \in {t \in shorter : Len(t) = n - 1}, e \in S}

(***************************************************************************)
(* insert_ticks_bulk                                                       *)
(***************************************************************************)
\* the chunk size of the loader
BATCH_SIZE == 10000

\* the chunk sizes compared with one another
ChunkSizes == {1, 2, BATCH_SIZE}

VARIABLES
    ticks_data,     \* the input list, after its leading block
    lead,           \* the input list starts with this many copies of one
                    \* record, which are converted and inserted in one step
    demo_filename,  \* the two batch constants
    map_name,
    batch_size,     \* the chunk size of this run
    progress,       \* whether the call has its progress bar
    fault,          \* the storage step that fails in this run, if any
    pc,             \* where the call is: "convert", "connect", "prepare",
                    \* "begin", "loop", "done"
    tick_records,   \* the rows converted so far, then the converted rows
    lead_at,        \* where the leading block is: "list", "records",
                    \* "pending", "table", "gone"
    conn,           \* "none", "open", "closed"
    stmt,           \* "none", "prepared", "dropped"
    txn,            \* "none", "active", "committed", "rolledback"
    pending,        \* the rows inserted in the open transaction
    table,          \* the rows of this call that are committed to demo_ticks
    ci,             \* the chunk the loop is in, and the place within it
    ti,
    inserted,       \* the running counter
    pb,             \* the progress bar
    out,            \* the status lines printed
    ops,            \* the storage operations issued, in order
    result          \* what the call returned

vars == <<ticks_data, lead, demo_filename, map_name, batch_size, progress, fault,
          pc, tick_records, lead_at, conn, stmt, txn, pending, table, ci, ti,
          inserted, pb, out, ops, result>>

inputs == <<ticks_data, lead, demo_filename, map_name, batch_size, progress, fault>>

Fault(step, k) == [step |-> step, k |-> k]

\* no step fails, one of open, prepare, BEGIN, COMMIT fails, or the k-th
\* single-row insert after the leading block fails
Faults ==
    {Fault(s, 0) : s \in {"none", "connect", "prepare", "begin", "commit"}}
    \cup {Fault("insert", k) : k \in 1..MaxN}

NoResult == [kind |-> "none", count |-> 0, err |-> ""]

\* Ok(count)
Ok(count) == [kind |-> "ok", count |-> count, err |-> ""]

\* mutant: the underlying error is passed on as it is, without its message
Err_raw(msg) == [kind |-> "err", count |-> 0, err |-> "unwrapped"]

\* Err(..): the downcast error of a record that is no dict, or a
\* PyRuntimeError with one of the five messages of the storage steps
Err(msg) == [kind |-> "err", count |-> 0, err |-> msg]

\* Err(..) of from_py_dict: the exception that the lookup of key raised
LookupErr(key) == [kind |-> "err", count |-> 0, err |-> "get_item", key |-> key]

\* the call did not return: inserted += 1 panicked
Panic == [kind |-> "panic", count |-> 0, err |-> "attempt to add with overflow"]

Op(name, ok, rows) == [op |-> name, ok |-> ok, rows |-> rows]

Min(a, b) == IF a < b THEN a ELSE b

\* mutant: chunks_exact(n), which leaves out a shorter last chunk
Chunks_exact(s, n) ==
    [c \in 1..(Len(s) \div n) |-> SubSeq(s, (c - 1) * n + 1, c * n)]

\* mutant: windows(n), every run of n consecutive elements
Chunks_windows(s, n) ==
    [c \in 1..(Len(s) - n + 1) |-> SubSeq(s, c, c + n - 1)]

\* mutant: rchunks(n), the chunks taken from the end of the slice
Chunks_r(s, n) ==
    [c \in 1..((Len(s) + n - 1) \div n) |->
        SubSeq(s, IF Len(s) - c * n + 1 < 1 THEN 1 ELSE Len(s) - c * n + 1,
               Len(s) - (c - 1) * n)]

\* slice.chunks(n): consecutive chunks of n elements, the last one shorter
\* when n does not divide the length; no chunk is empty
Chunks(s, n) ==
    [c \in 1..((Len(s) + n - 1) \div n) |->
        SubSeq(s, (c - 1) * n + 1, Min(c * n, Len(s)))]

\* the chunks of a slice of off + Len(s) elements, as far as they hold the
\* elements s that follow the first off: the chunk that the first off
\* elements leave unfinished, then chunks of n
ChunksFrom(s, n, off) ==
    LET first == IF off % n = 0 THEN 0 ELSE Min(n - (off % n), Len(s))
    IN  IF first = 0 THEN Chunks(s, n)
        ELSE <<SubSeq(s, 1, first)>> \o Chunks(SubSeq(s, first + 1, Len(s)), n)

\* inserted += 1 on the 32-bit counter, as a build without overflow checks
\* computes it
add_one(c) == IF c = I32Max THEN I32Min ELSE c + 1

\* whether inserted += 1 panics: never below the largest value, and at it
\* in a build with overflow checks (TRUE) but not in one without (FALSE)
OverflowPanics(c) == IF c = I32Max THEN BOOLEAN ELSE {FALSE}

\* a 32-bit value as a number
I32ToMag(c) == IF c = I32Min THEN Mag(TRUE, 0, 1, 0) ELSE SmallMag(c)

\* m + k for m, k >= 0, k < 2^31
MagAddSmall(m, k) ==
    IF m.lo <= LimbMax - k THEN Mag(m.neg, m.hi, m.mid, m.lo + k)
    ELSE LET c == CarryMid(m) IN Mag(c.neg, c.hi, c.mid, (m.lo - LimbMax) + (k - 1))

\* tick_records.len(): the leading block and the rows after it
total_ticks == MagAddSmall(SmallMag(lead), Len(tick_records))

\* c as u64: a negative value is sign-extended, 2^64 + c
as_u64(c) ==
    IF c >= 0 THEN SmallMag(c) ELSE Mag(FALSE, 3, LimbMax, (c + LimbMax) + 1)

\* made: the bar exists or existed; finished: it is finished; cleared: it was
\* finished by being cleared, its line erased
NoBar ==
    [made |-> FALSE, len |-> MagZero, pos |-> MagZero, finished |-> FALSE, msg |-> "",
     cleared |-> FALSE]

\* ProgressBar::new(total_ticks as u64), with its style
ProgressBar_new(total) ==
    IF progress
    THEN [made |-> TRUE, len |-> total, pos |-> MagZero, finished |-> FALSE, msg |-> "",
          cleared |-> FALSE]
    ELSE NoBar

\* mutant: pb.inc(inserted) in place of pb.set_position(inserted)
set_position_inc(p, c) ==
    IF progress THEN [p EXCEPT !.pos = MagAddSmall(p.pos, c)] ELSE p

\* pb.set_position(inserted as u64)
set_position(p, c) == IF progress THEN [p EXCEPT !.pos = as_u64(c)] ELSE p

\* pb.finish_with_message(msg): the bar is finished with the message, its
\* position set to its length
finish_with_message(p, m) ==
    IF progress THEN [p EXCEPT !.finished = TRUE, !.msg = m, !.pos = p.len] ELSE p

\* mutant: the connection outlives the call
drop_conn_leak(c) == c

\* leaving the function drops the statement and the connection; closing
\* the connection abandons a transaction that was not committed
drop_conn(c) == IF c = "open" THEN "closed" ELSE c

drop_stmt(st) == IF st = "prepared" THEN "dropped" ELSE st

drop_txn(t) == IF t = "active" THEN "rolledback" ELSE t

\* mutant: a bar that goes out of scope unfinished is left as it is
drop_pb_kept(p) == p

\* the bar goes out of scope: a bar that is not finished is finished and
\* cleared, its position set to its length and its line erased; a finished
\* bar, and a call without a bar, are left as they are
drop_pb(p) ==
    IF p.made /\ ~p.finished
    THEN [p EXCEPT !.pos = p.len, !.finished = TRUE, !.cleared = TRUE]
    ELSE p

\* return, the bar being p: the locals go out of scope
ReturnBar(r, p) ==
    /\ result' = r
    /\ pc' = "done"
    /\ conn' = drop_conn(conn)
    /\ stmt' = drop_stmt(stmt)
    /\ pb' = drop_pb(p)

\* return: the locals go out of scope
Return(r) == ReturnBar(r, pb)

\* the record of the leading block and its row
LeadRecord == RecExample

LeadRow == from_py_dict(DictItem(LeadRecord), demo_filename, map_name).v

\* where the leading block goes, when there is one
lead_to(at) == IF lead > 0 THEN at ELSE lead_at

\* the leading block is through the step that comes before at
LeadIs(at) == lead = 0 \/ lead_at = at

InitFull(items, sizes, leads, bars) ==
    /\ ticks_data \in items
    /\ lead \in leads
    /\ demo_filename \in DemoNames
    /\ map_name \in MapNames
    /\ batch_size \in sizes
    /\ progress \in bars
    /\ fault \in Faults
    /\ pc = "convert"
    /\ tick_records = <<>>
    /\ lead_at = "list"
    /\ conn = "none"
    /\ stmt = "none"
    /\ txn = "none"
    /\ pending = <<>>
    /\ table = <<>>
    /\ ci = 1
    /\ ti = 1
    /\ inserted = 0
    /\ pb = NoBar
    /\ out = <<>>
    /\ ops = <<>>
    /\ result = NoResult

\* a call with no leading block and with its progress bar
InitWith(items, sizes) == InitFull(items, sizes, {0}, {TRUE})

\* lines 69-75, for the whole leading block: its records are dicts and are
\* converted and collected
ConvertLead ==
    /\ pc = "convert"
    /\ lead > 0
    /\ lead_at = "list"
    /\ downcast_PyDict(DictItem(LeadRecord)).ok
    /\ from_py_dict(DictItem(LeadRecord), demo_filename, map_name).ok
    /\ lead_at' = "records"
    /\ UNCHANGED <<inputs, pc, tick_records, conn, stmt, txn, pending, table, ci, ti,
                   inserted, pb, out, ops, result>>

\* mutant: a record without a tick is given its place in the list as tick
Convert_fill ==
    /\ pc = "convert"
    /\ LeadIs("records")
    /\ Len(tick_records) < Len(ticks_data)
    /\ LET item == ticks_data[Len(tick_records) + 1]
           dict == downcast_PyDict(item)
           tick == from_py_dict(dict.v, demo_filename, map_name)
       IN  IF dict.ok /\ tick.ok
           THEN /\ tick_records' =
                     Append(tick_records,
                            IF "tick" \in DOMAIN dict.v.d THEN tick.v
                            ELSE [tick.v EXCEPT !.tick = Len(tick_records)])
                /\ UNCHANGED <<pc, result, conn, stmt, lead_at, pb>>
           ELSE /\ tick_records' = <<>>
                /\ lead_at' = lead_to("gone")
                /\ Return(IF dict.ok THEN LookupErr(tick.key) ELSE Err("downcast"))
    /\ UNCHANGED <<inputs, txn, pending, table, ci, ti, inserted, out, ops>>

\* lines 69-77, one element of the list: a record that is no dict ends the
\* call with the downcast error, a dict in which a lookup raises ends it with
\* that exception, and any other dict is converted and collected
Convert ==
    /\ pc = "convert"
    /\ LeadIs("records")
    /\ Len(tick_records) < Len(ticks_data)
    /\ LET item == ticks_data[Len(tick_records) + 1]
           dict == downcast_PyDict(item)
           tick == from_py_dict(dict.v, demo_filename, map_name)
       IN  IF dict.ok /\ tick.ok
           THEN /\ tick_records' = Append(tick_records, tick.v)
                /\ UNCHANGED <<pc, result, conn, stmt, lead_at, pb>>
           ELSE /\ tick_records' = <<>>
                /\ lead_at' = lead_to("gone")
                /\ Return(IF dict.ok THEN LookupErr(tick.key) ELSE Err("downcast"))
    /\ UNCHANGED <<inputs, txn, pending, table, ci, ti, inserted, out, ops>>

\* lines 77-80: every record was converted; the start line is printed
Collected ==
    /\ pc = "convert"
    /\ LeadIs("records")
    /\ Len(tick_records) = Len(ticks_data)
    /\ out' = Append(out, [line |-> "inserting", n |-> total_ticks])
    /\ pc' = "connect"
    /\ UNCHANGED <<inputs, tick_records, lead_at, conn, stmt, txn, pending, table,
                   ci, ti, inserted, pb, ops, result>>

\* lines 83-85: Connection::open
Connect ==
    /\ pc = "connect"
    /\ IF fault.step = "connect"
       THEN /\ ops' = Append(ops, Op("open", FALSE, <<>>))
            /\ Return(Err("Failed to connect to DuckDB"))
       ELSE /\ ops' = Append(ops, Op("open", TRUE, <<>>))
            /\ conn' = "open"
            /\ pc' = "prepare"
            /\ UNCHANGED <<stmt, result, pb>>
    /\ UNCHANGED <<inputs, tick_records, lead_at, txn, pending, table, ci, ti,
                   inserted, out>>

\* lines 88-96: conn.prepare
Prepare ==
    /\ pc = "prepare"
    /\ IF fault.step = "prepare"
       THEN /\ ops' = Append(ops, Op("prepare", FALSE, <<>>))
            /\ Return(Err("Failed to prepare statement"))
       ELSE /\ ops' = Append(ops, Op("prepare", TRUE, <<>>))
            /\ stmt' = "prepared"
            /\ pc' = "begin"
            /\ UNCHANGED <<conn, result, pb>>
    /\ UNCHANGED <<inputs, tick_records, lead_at, txn, pending, table, ci, ti,
                   inserted, out>>

\* lines 99-114: BEGIN TRANSACTION, then the progress bar and the counter
Begin ==
    /\ pc = "begin"
    /\ IF fault.step = "begin"
       THEN /\ ops' = Append(ops, Op("begin", FALSE, <<>>))
            /\ Return(Err("Failed to begin transaction"))
            /\ UNCHANGED <<txn, inserted, ci, ti>>
       ELSE /\ ops' = Append(ops, Op("begin", TRUE, <<>>))
            /\ txn' = "active"
            /\ pb' = ProgressBar_new(total_ticks)
            /\ inserted' = 0
            /\ ci' = 1
            /\ ti' = 1
            /\ pc' = "loop"
            /\ UNCHANGED <<conn, stmt, result>>
    /\ UNCHANGED <<inputs, tick_records, lead_at, pending, table, out>>

\* lines 116-147, for the whole leading block: each of its rows is inserted,
\* the counter and the bar advance with each; the counter, which starts at 0,
\* does not overflow within the block, which has at most 2^31 - 1 rows
InsertLead ==
    /\ pc = "loop"
    /\ lead > 0
    /\ lead_at = "records"
    /\ inserted = 0
    /\ ops' = Append(ops, Op("insert block", TRUE, <<LeadRow>>))
    /\ lead_at' = "pending"
    /\ inserted' = lead
    /\ pb' = set_position(pb, lead)
    /\ UNCHANGED <<inputs, pc, tick_records, conn, stmt, txn, pending, table, ci, ti,
                   out, result>>

\* mutant: a row whose insert failed is skipped and the loop goes on
execute_failed_skip(tick, chunk) ==
    /\ ops' = Append(ops, Op("insert", FALSE, <<tick>>))
    /\ IF ti < Len(chunk)
       THEN ti' = ti + 1 /\ ci' = ci
       ELSE ti' = 1 /\ ci' = ci + 1
    /\ UNCHANGED <<pc, txn, conn, stmt, result, pending, inserted, pb, lead_at>>

\* lines 140-142: the insert of a row failed; the error is returned
execute_failed(tick, chunk) ==
    /\ ops' = Append(ops, Op("insert", FALSE, <<tick>>))
    /\ Return(Err("Failed to insert tick"))
    /\ txn' = drop_txn(txn)
    /\ pending' = <<>>
    /\ lead_at' = lead_to("gone")
    /\ UNCHANGED <<inserted, ci, ti>>

\* mutant: the statement is prepared again for every row
execute_ok_prepare(tick, chunk) ==
    /\ ops' = ops \o <<Op("prepare", TRUE, <<>>), Op("insert", TRUE, <<tick>>)>>
    /\ pending' = Append(pending, tick)
    /\ inserted' = add_one(inserted)
    /\ pb' = set_position(pb, add_one(inserted))
    /\ IF ti < Len(chunk)
       THEN ti' = ti + 1 /\ ci' = ci
       ELSE ti' = 1 /\ ci' = ci + 1
    /\ UNCHANGED <<pc, txn, conn, stmt, result, lead_at>>

\* mutant: the transaction is committed after every chunk
execute_ok_commit(tick, chunk) ==
    /\ ops' = IF ti < Len(chunk)
              THEN Append(ops, Op("insert", TRUE, <<tick>>))
              ELSE ops \o <<Op("insert", TRUE, <<tick>>), Op("commit", TRUE, <<>>)>>
    /\ pending' = Append(pending, tick)
    /\ inserted' = add_one(inserted)
    /\ pb' = set_position(pb, add_one(inserted))
    /\ IF ti < Len(chunk)
       THEN ti' = ti + 1 /\ ci' = ci
       ELSE ti' = 1 /\ ci' = ci + 1
    /\ UNCHANGED <<pc, txn, conn, stmt, result, lead_at>>

\* mutant: the counter is read back from the progress bar
execute_ok_bar(tick, chunk) ==
    /\ ops' = Append(ops, Op("insert", TRUE, <<tick>>))
    /\ pending' = Append(pending, tick)
    /\ inserted' = IF progress THEN add_one(inserted) ELSE inserted
    /\ pb' = set_position(pb, add_one(inserted))
    /\ IF ti < Len(chunk)
       THEN ti' = ti + 1 /\ ci' = ci
       ELSE ti' = 1 /\ ci' = ci + 1
    /\ UNCHANGED <<pc, txn, conn, stmt, result, lead_at>>

\* lines 144-146: the row was inserted; the counter and the bar advance and
\* the loops move to the next row, unless inserted += 1 panics, which unwinds
\* the call
execute_ok(tick, chunk) ==
    /\ ops' = Append(ops, Op("insert", TRUE, <<tick>>))
    /\ \E panics \in OverflowPanics(inserted) :
        IF panics
        THEN /\ Return(Panic)
             /\ txn' = drop_txn(txn)
             /\ pending' = <<>>
             /\ lead_at' = lead_to("gone")
             /\ UNCHANGED <<inserted, ci, ti>>
        ELSE /\ pending' = Append(pending, tick)
             /\ inserted' = add_one(inserted)
             /\ pb' = set_position(pb, add_one(inserted))
             /\ IF ti < Len(chunk)
                THEN ti' = ti + 1 /\ ci' = ci
                ELSE ti' = 1 /\ ci' = ci + 1
             /\ UNCHANGED <<pc, txn, conn, stmt, result, lead_at>>

\* the chunks of the loop that hold the rows after the leading block
LoopChunks == ChunksFrom(tick_records, batch_size, lead)

\* lines 116-147, one row: stmt.execute, then the counter and the bar
InsertTick ==
    /\ pc = "loop"
    /\ LeadIs("pending")
    /\ ci <= Len(LoopChunks)
    /\ LET chunk == LoopChunks[ci]
           tick  == chunk[ti]
       IN  IF fault.step = "insert" /\ fault.k = Len(pending) + 1
           THEN execute_failed(tick, chunk)
           ELSE execute_ok(tick, chunk)
    /\ UNCHANGED <<inputs, tick_records, table, out>>

\* mutant: the outcome of COMMIT is not looked at
commit_failed_ignored ==
    /\ ops' = Append(ops, Op("commit", FALSE, <<>>))
    /\ txn' = drop_txn(txn)
    /\ pending' = <<>>
    /\ lead_at' = lead_to("gone")
    /\ out' = Append(out, [line |-> "successfully inserted", n |-> I32ToMag(inserted)])
    /\ ReturnBar(Ok(inserted), finish_with_message(pb, "Complete"))
    /\ UNCHANGED table

\* mutant: the bar is finished before COMMIT is issued
commit_failed_finished ==
    /\ ops' = Append(ops, Op("commit", FALSE, <<>>))
    /\ ReturnBar(Err("Failed to commit transaction"), finish_with_message(pb, "Complete"))
    /\ txn' = drop_txn(txn)
    /\ pending' = <<>>
    /\ lead_at' = lead_to("gone")
    /\ UNCHANGED <<table, out>>

\* lines 150-152: COMMIT failed; the error is returned
commit_failed ==
    /\ ops' = Append(ops, Op("commit", FALSE, <<>>))
    /\ Return(Err("Failed to commit transaction"))
    /\ txn' = drop_txn(txn)
    /\ pending' = <<>>
    /\ lead_at' = lead_to("gone")
    /\ UNCHANGED <<table, out>>

\* lines 150-157: COMMIT succeeded; the bar is finished, the completion
\* line printed and the counter returned
commit_ok ==
    /\ ops' = Append(ops, Op("commit", TRUE, <<>>))
    /\ txn' = "committed"
    /\ table' = table \o pending
    /\ pending' = <<>>
    /\ lead_at' = lead_to("table")
    /\ out' = Append(out, [line |-> "successfully inserted", n |-> I32ToMag(inserted)])
    /\ ReturnBar(Ok(inserted), finish_with_message(pb, "Complete"))

\* lines 149-157: after the last chunk
Commit ==
    /\ pc = "loop"
    /\ LeadIs("pending")
    /\ ci > Len(LoopChunks)
    /\ IF fault.step = "commit" THEN commit_failed ELSE commit_ok
    /\ UNCHANGED <<inputs, tick_records, ci, ti, inserted>>

Next ==
    \/ Convert
    \/ Collected
    \/ Connect
    \/ Prepare
    \/ Begin
    \/ InsertTick
    \/ Commit

\* the loader as built: chunks of BATCH_SIZE
Init == InitWith(SeqsUpTo(SmallItems, MaxN), {BATCH_SIZE})

Spec == Init /\ [][Next]_vars

\* one record, drawn from the one-key variations of a full record
InitNorm == InitWith({<<i>> : i \in VariedItems}, {BATCH_SIZE})

SpecNorm == InitNorm /\ [][Next]_vars

\* the loader with its chunk size varied
InitChunk == InitWith(SeqsUpTo(SmallItems, MaxN), ChunkSizes)

SpecChunk == InitChunk /\ [][Next]_vars

\* the loader with and without its progress bar
InitProgress == InitFull(SeqsUpTo(SmallItems, MaxN), {BATCH_SIZE}, {0}, BOOLEAN)

SpecProgress == InitProgress /\ [][Next]_vars

\* how far below 2^31 - 1 the leading blocks start
MaxLeadGap == 2

\* leading blocks of 2^31 - 1 rows and a few less
BigLeads == {I32Max - g : g \in 0..MaxLeadGap}

\* the loader on lists of about 2^31 records
InitBig == InitFull(SeqsUpTo(SmallItems, MaxN), {BATCH_SIZE}, BigLeads, {TRUE})

NextBig ==
    \/ ConvertLead
    \/ InsertLead
    \/ Next

SpecBig == InitBig /\ [][NextBig]_vars

(***************************************************************************)
(* The claims.                                                             *)
(***************************************************************************)
Done == pc = "done"

AllDicts == \A i \in 1..Len(ticks_data) : ticks_data[i].isdict

\* the keys that the conversion looks up
FieldKeySet == {FieldKeys[i] : i \in DOMAIN FieldKeys}

\* the record can be read: it is a dict and no lookup of a field raises
Readable(item) == item.isdict /\ item.raises \cap FieldKeySet = {}

\* the input has no structural error
NoStructuralError == \A i \in 1..Len(ticks_data) : Readable(ticks_data[i])

\* the first record that cannot be read
FirstUnreadable ==
    CHOOSE i \in 1..Len(ticks_data) :
        /\ ~Readable(ticks_data[i])
        /\ \A j \in 1..(i - 1) : Readable(ticks_data[j])

\* the structural error of an input that has one: the downcast error of its
\* first unreadable record, or the exception of that record's first lookup, in
\* field order, that raises
StructuralError ==
    LET item == ticks_data[FirstUnreadable]
    IN  IF ~item.isdict THEN Err("downcast")
        ELSE LookupErr(FieldKeys[CHOOSE i \in DOMAIN FieldKeys :
                           /\ FieldKeys[i] \in item.raises
                           /\ \A j \in 1..(i - 1) : FieldKeys[j] \notin item.raises])

AllOpsOk == \A j \in 1..Len(ops) : ops[j].ok

OpsNamed(name) == {j \in 1..Len(ops) : ops[j].op = name}

\* C1: when the single-row insert of some row fails, no storage operation
\* follows it (no further insert, no COMMIT), the call has returned the
\* row-insertion failure and not a count, and no row of the call is committed.
C1_AllOrNothing ==
    \A j \in 1..Len(ops) :
        (ops[j].op = "insert" /\ ~ops[j].ok) =>
            /\ j = Len(ops)
            /\ OpsNamed("commit") = {}
            /\ Done
            /\ result = Err("Failed to insert tick")
            /\ txn = "rolledback"
            /\ pending = <<>>
            /\ table = <<>>

\* the second of three rows failed, after the first was inserted
C1_Witness ==
    /\ Done
    /\ Len(ticks_data) = 3
    /\ Len(ops) = 5
    /\ ops[4] = Op("insert", TRUE, <<tick_records[1]>>)
    /\ ops[5] = Op("insert", FALSE, <<tick_records[2]>>)
    /\ result.kind = "err"

\* C2: a call whose records are all mappings and whose storage steps all
\* succeed returns the length of the input, and exactly that many rows of the
\* call, the converted records in order, are committed.
C2_FullCount ==
    (Done /\ NoStructuralError /\ AllOpsOk) =>
        /\ result = Ok(Len(ticks_data))
        /\ Len(table) = Len(ticks_data)
        /\ table = tick_records
        /\ txn = "committed"

\* a call of three records that succeeded
C2_Witness ==
    /\ Done
    /\ NoStructuralError
    /\ AllOpsOk
    /\ Len(ticks_data) = 3
    /\ result = Ok(3)
    /\ Len(table) = 3

\* C3: when some record of the input is no mapping, no storage operation is
\* ever performed (no connection, no statement, no transaction, no insert),
\* nothing is committed, nothing is printed, and the call ends with the
\* structural error of the first record that cannot be read: the downcast
\* error when every record before the first that is no mapping can be read.
C3_StructuralAbort ==
    (~AllDicts) =>
        /\ ops = <<>>
        /\ conn = "none"
        /\ stmt = "none"
        /\ txn = "none"
        /\ pending = <<>>
        /\ table = <<>>
        /\ out = <<>>
        /\ pc \in {"convert", "done"}
        /\ Done => result = StructuralError /\ result.kind = "err"
        /\ (Done /\ ~ticks_data[FirstUnreadable].isdict) => result = Err("downcast")

\* two valid records were converted before the third, which is no mapping,
\* ended the call
C3_Witness ==
    /\ Done
    /\ Len(ticks_data) = 3
    /\ ticks_data[1].isdict
    /\ ticks_data[2].isdict
    /\ ~ticks_data[3].isdict
    /\ result = Err("downcast")
    /\ ops = <<>>

\* the 19 columns read from the record: the key, the declared type and the
\* documented default of each
Column(col, key, ty, dflt) == [col |-> col, key |-> key, ty |-> ty, dflt |-> dflt]

Columns ==
    { Column("tick", "tick", "i32", 0),
      Column("round_num", "roundNum", "i32", 0),
      Column("seconds", "seconds", "f64", F64Zero),
      Column("clock_time", "clockTime", "String", ""),
      Column("t_score", "tScore", "i32", 0),
      Column("ct_score", "ctScore", "i32", 0),
      Column("steam_id", "steamID", "i64", MagZero),
      Column("name", "name", "String", ""),
      Column("team", "team", "String", ""),
      Column("side", "side", "String", ""),
      Column("is_alive", "isAlive", "bool", TRUE),
      Column("hp", "hp", "i32", 100),
      Column("armor", "armor", "i32", 0),
      Column("x", "x", "f64", F64Zero),
      Column("y", "y", "f64", F64Zero),
      Column("z", "z", "f64", F64Zero),
      Column("view_x", "viewX", "f64", F64Zero),
      Column("view_y", "viewY", "f64", F64Zero),
      Column("active_weapon", "activeWeapon", "String", "") }

\* whether the object is coercible to the declared type
Coercible(ty, o) ==
    CASE ty = "i32" -> extract_i32(o).ok
      [] ty = "i64" -> extract_i64(o).ok
      [] ty = "f64" -> extract_f64(o).ok
      [] ty = "String" -> extract_String(o).ok
      [] OTHER -> extract_bool(o).ok

\* the key of the column is absent, null or not coercible
Defective(c, d) ==
    \/ c.key \notin DOMAIN d
    \/ d[c.key].t = "none"
    \/ ~Coercible(c.ty, d[c.key])

\* the row of RecFull
FullRow ==
    [ tick |-> 640, round_num |-> 3, seconds |-> F64("fin", FALSE, 0, 0, 12, 2),
      clock_time |-> "01:43", t_score |-> 2, ct_score |-> 1,
      steam_id |-> Mag(FALSE, 0, 35555555, 1234567),
      name |-> "s1mple", team |-> "NaVi", side |-> "CT", is_alive |-> FALSE,
      hp |-> 87, armor |-> 50,
      x |-> F64("fin", TRUE, 0, 0, 1024, 1), y |-> F64("fin", FALSE, 0, 0, 300, 0),
      z |-> F64("fin", FALSE, 0, 0, 64, 3), view_x |-> F64("fin", TRUE, 0, 0, 90, 0),
      view_y |-> F64("fin", FALSE, 0, 0, 45, 2), active_weapon |-> "AWP" ]

\* row is what the claim asks of the conversion of dict d: a defective field
\* has its documented default, and a field whose key holds what it holds in
\* RecFull has the value it has in the row of RecFull, whatever the other keys
Defaulted(d, row) ==
    \A c \in Columns :
        /\ Defective(c, d) => row[c.col] = c.dflt
        /\ (c.key \in DOMAIN d /\ d[c.key] = RecFull[c.key]) => row[c.col] = FullRow[c.col]

\* the call ended with an error of the conversion of the records
ConversionFailed ==
    Done /\ result.kind = "err" /\ result.err \in {"downcast", "get_item"}

\* C4 as claimed: for a mapping record, every field whose key is absent, null
\* or not coercible to the declared type has the documented default, the
\* other fields are what they are without the defect, the conversion does not
\* fail, and the row is inserted and, when the storage steps succeed,
\* committed.
C4_Defaults ==
    \A i \in 1..Len(ticks_data) :
        ticks_data[i].isdict =>
            /\ ~ConversionFailed
            /\ i <= Len(tick_records) => Defaulted(ticks_data[i].d, tick_records[i])
            /\ i <= Len(pending) => Defaulted(ticks_data[i].d, pending[i])
            /\ (Done /\ AllOpsOk) =>
                   /\ result = Ok(Len(ticks_data))
                   /\ Len(table) = Len(ticks_data)
                   /\ Defaulted(ticks_data[i].d, table[i])

\* C4 as amended: for a mapping record on which no lookup of a field raises,
\* every field whose key is absent, null or not coercible to the declared
\* type has the documented default, the other fields are what they are
\* without the defect, the conversion does not fail, and the row is inserted
\* and, when the storage steps succeed, committed; a mapping record on which
\* the lookup of a field raises ends the call with that exception, the one of
\* the first such field in field order, before any row is kept and before any
\* storage operation.
C4_DefaultsReadable ==
    \A i \in 1..Len(ticks_data) :
        ticks_data[i].isdict =>
            IF Readable(ticks_data[i])
            THEN /\ ~ConversionFailed
                 /\ i <= Len(tick_records) => Defaulted(ticks_data[i].d, tick_records[i])
                 /\ i <= Len(pending) => Defaulted(ticks_data[i].d, pending[i])
                 /\ (Done /\ AllOpsOk) =>
                        /\ result = Ok(Len(ticks_data))
                        /\ Len(table) = Len(ticks_data)
                        /\ Defaulted(ticks_data[i].d, table[i])
            ELSE /\ tick_records = <<>>
                 /\ ops = <<>>
                 /\ table = <<>>
                 /\ out = <<>>
                 /\ pc \in {"convert", "done"}
                 /\ Done => result = StructuralError /\ result.err = "get_item"

\* a record whose hp is a string was committed with hp 100 and the armor of
\* the record
C4_Witness ==
    /\ Done
    /\ result = Ok(1)
    /\ ticks_data[1].isdict
    /\ "hp" \in DOMAIN ticks_data[1].d
    /\ ticks_data[1].d["hp"] = PyStr("abc")
    /\ table[1].hp = 100
    /\ table[1].armor = 50

\* a record whose lookups of hp and roundNum raise ended the call with the
\* exception of the lookup of roundNum, the earlier field
C4_WitnessRaised ==
    /\ Done
    /\ ticks_data[1].isdict
    /\ ticks_data[1].raises = {"hp", "roundNum"}
    /\ result = LookupErr("roundNum")
    /\ ops = <<>>

StorageErrors4 ==
    { "Failed to connect to DuckDB", "Failed to prepare statement",
      "Failed to insert tick", "Failed to commit transaction" }

\* the call failed once all records were converted (the start line is
\* printed): it ended with an error or with a panic
StorageFailed == Done /\ out # <<>> /\ result.kind # "ok"

\* the message with which the failure of a storage step is returned
MessageOf(step) ==
    CASE step = "open" -> "Failed to connect to DuckDB"
      [] step = "prepare" -> "Failed to prepare statement"
      [] step = "begin" -> "Failed to begin transaction"
      [] step = "insert" -> "Failed to insert tick"
      [] OTHER -> "Failed to commit transaction"

\* C5 as claimed: once all records are converted, a failure of the call is a
\* connection, preparation, row insertion or commit error, and no other
\* failure outcome is reachable.
C5_FourKinds ==
    StorageFailed => result \in {Err(m) : m \in StorageErrors4}

\* C5 as amended: once all records are converted, a failure of the call is
\* either the error of the one storage step that failed, which is the last
\* step issued: a connection, preparation, begin-transaction, row insertion
\* or commit error; or the panic of the counter addition, after the
\* successful insert of a row with the counter at 2^31 - 1 and no step
\* failed; no other failure outcome is reachable.
C5_FiveKinds ==
    StorageFailed =>
        /\ ops # <<>>
        /\ \A j \in 1..(Len(ops) - 1) : ops[j].ok
        /\ \/ /\ ~ops[Len(ops)].ok
              /\ ops[Len(ops)].op \in {"open", "prepare", "begin", "insert", "commit"}
              /\ result = Err(MessageOf(ops[Len(ops)].op))
              /\ result.err \in StorageErrors4 \cup {"Failed to begin transaction"}
           \/ /\ ops[Len(ops)].ok
              /\ ops[Len(ops)].op = "insert"
              /\ inserted = I32Max
              /\ result = Panic

\* BEGIN TRANSACTION failed and the call returned that failure
C5_Witness ==
    /\ Done
    /\ out # <<>>
    /\ Len(ops) = 3
    /\ ops[3] = Op("begin", FALSE, <<>>)
    /\ result = Err("Failed to begin transaction")

\* the counter addition panicked after the insert of the 2^31-th row
C5_WitnessPanic ==
    /\ Done
    /\ out # <<>>
    /\ result = Panic
    /\ inserted = I32Max
    /\ ops[Len(ops)] = Op("insert", TRUE, <<tick_records[1]>>)

\* C6: a call that has returned either succeeded, returning the length of the
\* input with the transaction committed, or failed, returning no count and
\* leaving nothing committed; when COMMIT fails the call returns the commit
\* failure.
C6_NoPartialSuccess ==
    Done =>
        /\ \/ /\ result = Ok(Len(ticks_data))
              /\ txn = "committed"
              /\ Len(table) = Len(ticks_data)
           \/ /\ result.kind = "err"
              /\ txn # "committed"
              /\ table = <<>>
        /\ (ops # <<>> /\ ops[Len(ops)] = Op("commit", FALSE, <<>>)) =>
               result = Err("Failed to commit transaction")

\* every insert of a call of two or more records succeeded and COMMIT failed
C6_Witness ==
    /\ Done
    /\ Len(ticks_data) >= 2
    /\ Cardinality({j \in OpsNamed("insert") : ops[j].ok}) = Len(ticks_data)
    /\ ops[Len(ops)] = Op("commit", FALSE, <<>>)
    /\ result = Err("Failed to commit transaction")

\* the rows of the input, for an input of mappings
InputRows ==
    [i \in 1..Len(ticks_data) |-> from_py_dict(ticks_data[i], demo_filename, map_name).v]

IsPrefix(s, t) == Len(s) <= Len(t) /\ s = SubSeq(t, 1, Len(s))

Opened == <<Op("open", TRUE, <<>>), Op("prepare", TRUE, <<>>), Op("begin", TRUE, <<>>)>>

InsertsOf(rows, n) == [j \in 1..n |-> Op("insert", TRUE, <<rows[j]>>)]

Outcome(r, o, t) == [result |-> r, ops |-> o, table |-> t]

\* the load as one flat loop over all rows, with no chunks: what it returns,
\* the storage operations it issues and what it commits
FlatLoad(rows, f) ==
    CASE f.step = "connect" ->
            Outcome(Err("Failed to connect to DuckDB"), <<Op("open", FALSE, <<>>)>>, <<>>)
      [] f.step = "prepare" ->
            Outcome(Err("Failed to prepare statement"),
                    <<Op("open", TRUE, <<>>), Op("prepare", FALSE, <<>>)>>, <<>>)
      [] f.step = "begin" ->
            Outcome(Err("Failed to begin transaction"),
                    <<Op("open", TRUE, <<>>), Op("prepare", TRUE, <<>>),
                      Op("begin", FALSE, <<>>)>>, <<>>)
      [] f.step = "insert" /\ f.k <= Len(rows) ->
            Outcome(Err("Failed to insert tick"),
                    Opened \o InsertsOf(rows, f.k - 1)
                           \o <<Op("insert", FALSE, <<rows[f.k]>>)>>, <<>>)
      [] f.step = "commit" ->
            Outcome(Err("Failed to commit transaction"),
                    Opened \o InsertsOf(rows, Len(rows)) \o <<Op("commit", FALSE, <<>>)>>,
                    <<>>)
      [] OTHER ->
            Outcome(Ok(Len(rows)),
                    Opened \o InsertsOf(rows, Len(rows)) \o <<Op("commit", TRUE, <<>>)>>,
                    rows)

\* C7: whatever the chunk size (1, 2, 10,000), the storage operations issued
\* so far, with the rows passed to the insert, are a prefix of those of one
\* flat loop over all rows, and a call that has returned has the result, the
\* operations (so the BEGINs and COMMITs) and the committed rows of the flat
\* loop; an input with a record that cannot be read gives the structural error
\* and no operation for every chunk size.
C7_ChunkingTransparent ==
    IF NoStructuralError
    THEN /\ IsPrefix(ops, FlatLoad(InputRows, fault).ops)
         /\ Done => Outcome(result, ops, table) = FlatLoad(InputRows, fault)
    ELSE /\ ops = <<>>
         /\ Done => Outcome(result, ops, table) = Outcome(StructuralError, <<>>, <<>>)

\* a call of three rows in chunks of two, the last chunk short, succeeded
C7_Witness ==
    /\ Done
    /\ batch_size = 2
    /\ Len(ticks_data) = 3
    /\ result = Ok(3)
    /\ ci = 3

\* C8: when the call has returned, the connection is not open and the
\* statement not live: a connection that was opened is closed and a statement
\* that was prepared is dropped, whatever the call returned.
C8_Released ==
    Done =>
        /\ conn # "open"
        /\ stmt # "prepared"
        /\ (\E j \in OpsNamed("open") : ops[j].ok) => conn = "closed"
        /\ (\E j \in OpsNamed("prepare") : ops[j].ok) => stmt = "dropped"
        /\ txn # "active"

\* the call returned a row-insertion failure with the connection closed and
\* the statement dropped
C8_Witness ==
    /\ Done
    /\ result = Err("Failed to insert tick")
    /\ conn = "closed"
    /\ stmt = "dropped"

RowsHeld == {tick_records, pending, table}

\* C9: every row of the call, converted, inserted or committed, carries the
\* demo_filename and map_name given to the call, also when its record has keys
\* of these names.
C9_BatchConstantsInjected ==
    /\ \A rows \in RowsHeld : \A i \in 1..Len(rows) :
           /\ rows[i].demo_filename = demo_filename
           /\ rows[i].map_name = map_name
    /\ \A j \in OpsNamed("insert") :
           /\ ops[j].rows[1].demo_filename = demo_filename
           /\ ops[j].rows[1].map_name = map_name

\* a record with its own demo_filename and map_name keys was committed, with
\* another record, under the call's two constants
C9_Witness ==
    /\ Done
    /\ Len(table) >= 2
    /\ \E i \in 1..Len(ticks_data) :
           /\ "demo_filename" \in DOMAIN ticks_data[i].d
           /\ ticks_data[i].d["demo_filename"] = PyStr("other.dem")
           /\ ticks_data[i].d["map_name"] = PyStr("de_other")
           /\ table[i].demo_filename = demo_filename
           /\ table[i].map_name = map_name

\* the row of the example record of the specification
ExampleRow ==
    [ tick |-> 1, round_num |-> 0, seconds |-> F64Zero, clock_time |-> "",
      t_score |-> 0, ct_score |-> 0, steam_id |-> Mag(FALSE, 0, 0, 123),
      name |-> "", team |-> "", side |-> "", is_alive |-> FALSE, hp |-> 100,
      armor |-> 0, x |-> F64Zero, y |-> F64Zero, z |-> F64Zero,
      view_x |-> F64Zero, view_y |-> F64Zero, active_weapon |-> "",
      demo_filename |-> demo_filename, map_name |-> map_name ]

\* C10: equal records of one call are converted to equal rows, wherever they
\* stand in the list and whatever was converted before them; the example
\* record gives the row of the specification at every place.
C10_Deterministic ==
    \A i \in 1..Len(tick_records) :
        /\ \A j \in 1..Len(tick_records) :
               ticks_data[i] = ticks_data[j] => tick_records[i] = tick_records[j]
        /\ ticks_data[i] = DictItem(RecExample) => tick_records[i] = ExampleRow

\* the first and the third record are the same empty record, the second is
\* another one, and all three are converted
C10_Witness ==
    /\ Len(tick_records) = 3
    /\ ticks_data[1] = DictItem(EmptyDict)
    /\ ticks_data[3] = ticks_data[1]
    /\ ticks_data[2] = DictItem(RecFull)
    /\ tick_records[1] = tick_records[3]

BeginOk == Op("begin", TRUE, <<>>)

CommitOps == OpsNamed("commit")

\* the inserts that succeeded, in the order they were issued
OkInserts == SelectSeq(ops, LAMBDA o : o.op = "insert" /\ o.ok)

\* C11: COMMIT is issued at most once, as the last operation, after BEGIN
\* succeeded and directly after the insert of the last row of the last chunk
\* with every row inserted before it (for an empty input directly after
\* BEGIN); BEGIN is issued at most once, before the first insert; and every
\* insert comes after the successful BEGIN and before any COMMIT.
C11_TransactionOrder ==
    /\ Cardinality(CommitOps) <= 1
    /\ Cardinality(OpsNamed("begin")) <= 1
    /\ \A j \in CommitOps :
        /\ j = Len(ops)
        /\ j > 1
        /\ \E b \in 1..(j - 1) : ops[b] = BeginOk
        /\ Len(OkInserts) = Len(tick_records)
        /\ Len(tick_records) = Len(ticks_data)
        /\ IF Len(ticks_data) = 0
           THEN ops[j - 1] = BeginOk
           ELSE ops[j - 1] = Op("insert", TRUE, <<tick_records[Len(tick_records)]>>)
    /\ \A j \in OpsNamed("insert") :
        /\ \E b \in 1..(j - 1) : ops[b] = BeginOk
        /\ \A k \in 1..j : ops[k].op # "commit"
        /\ \A k \in 1..Len(ops) : ops[k].op = "begin" => k < j

\* three rows in three chunks of one row, and the one COMMIT after the third
C11_Witness ==
    /\ Done
    /\ batch_size = 1
    /\ Len(ticks_data) = 3
    /\ Len(ops) = 7
    /\ ops[3] = BeginOk
    /\ ops[6] = Op("insert", TRUE, <<tick_records[3]>>)
    /\ ops[7] = Op("commit", TRUE, <<>>)
    /\ CommitOps = {7}

\* the normalization of the i-th input record
NormalizedRow(i) == from_py_dict(ticks_data[i], demo_filename, map_name).v

\* the number of rows inserted so far: the leading block, once it is inserted,
\* and the single rows after it
RowsInserted ==
    MagAddSmall(SmallMag(IF OpsNamed("insert block") # {} THEN lead ELSE 0),
                Len(OkInserts))

\* C12: at every moment the rows inserted so far are a prefix of the
\* normalized input, in input order: the i-th insert that succeeded passed the
\* normalization of the i-th record, with none skipped, repeated or reordered,
\* also across chunk boundaries; these are the rows the open transaction
\* holds; and the running counter is the length of that prefix.
C12_PrefixInserted ==
    /\ Len(OkInserts) <= Len(ticks_data)
    /\ \A i \in 1..Len(OkInserts) :
        /\ ticks_data[i].isdict
        /\ OkInserts[i].rows = <<NormalizedRow(i)>>
    /\ I32ToMag(inserted) = RowsInserted
    /\ pc = "loop" =>
        /\ Len(pending) = Len(OkInserts)
        /\ \A i \in 1..Len(pending) : pending[i] = NormalizedRow(i)
    /\ \A j \in OpsNamed("insert") :
        ~ops[j].ok => ops[j].rows = <<NormalizedRow(Len(OkInserts) + 1)>>

\* three different rows in chunks of two: the third row, the first of the
\* second chunk, was inserted
C12_Witness ==
    /\ pc = "loop"
    /\ batch_size = 2
    /\ Len(ticks_data) = 3
    /\ inserted = 3
    /\ ci = 3
    /\ Cardinality({NormalizedRow(1), NormalizedRow(2), NormalizedRow(3)}) = 3
    /\ OkInserts[3].rows = <<NormalizedRow(3)>>

\* the length N of the input list, the leading block included
InputLength == MagAddSmall(SmallMag(lead), Len(ticks_data))

\* the call returned after every record was a dict and every storage
\* operation it issued succeeded
AllSucceeded == Done /\ NoStructuralError /\ AllOpsOk

\* C17: when every record is a dict and every storage step succeeds, the call
\* returns an integer, which is the running counter and is the input length N,
\* for every N, also for N greater than 2^31 - 1.
C17_ReturnIsLength ==
    AllSucceeded =>
        /\ result.kind = "ok"
        /\ result.count = inserted
        /\ I32ToMag(result.count) = InputLength

\* C13: one call is one session: at most one connection is opened, the
\* statement is prepared at most once, as the second operation and before
\* BEGIN, at most one transaction is begun, and every insert and the COMMIT
\* come after that one open, that one prepare and that one BEGIN, while the
\* connection is open, the statement prepared and the transaction active.
C13_OneSession ==
    /\ Cardinality(OpsNamed("open")) <= 1
    /\ Cardinality(OpsNamed("prepare")) <= 1
    /\ Cardinality(OpsNamed("begin")) <= 1
    /\ OpsNamed("open") \subseteq {1}
    /\ OpsNamed("prepare") \subseteq {2}
    /\ OpsNamed("begin") \subseteq {3}
    /\ \A j \in OpsNamed("insert") \cup OpsNamed("commit") :
        j > 3 /\ SubSeq(ops, 1, 3) = Opened
    /\ pc = "loop" => conn = "open" /\ stmt = "prepared" /\ txn = "active"
    /\ Len(OkInserts) > 0 /\ ~Done => pc = "loop"

\* three rows in three chunks went through the one statement prepared before
\* BEGIN
C13_Witness ==
    /\ Done
    /\ result = Ok(3)
    /\ batch_size = 1
    /\ Len(OkInserts) = 3
    /\ OpsNamed("open") = {1}
    /\ OpsNamed("prepare") = {2}
    /\ OpsNamed("begin") = {3}

\* a <= b, for a, b >= 0
MagLeq(a, b) ==
    \/ a.hi < b.hi
    \/ a.hi = b.hi /\ a.mid < b.mid
    \/ a.hi = b.hi /\ a.mid = b.mid /\ a.lo <= b.lo

\* the number of rows of this call that are committed
RowsCommitted ==
    MagAddSmall(SmallMag(IF lead_at = "table" THEN lead ELSE 0), Len(table))

\* the bar exists: it was made and has not gone out of scope unfinished
BarAlive == pb.made /\ ~pb.cleared

\* C14: the progress bar is created with the input length N as its total; as
\* long as the bar exists its position is the number of rows inserted so far
\* (so it never decreases) and is at most N; when the call has succeeded the
\* bar is finished and its position is the number of rows committed and is
\* the total; for N = 0 that is position 0 with no insert and so no advance.
C14_ProgressTracks ==
    /\ pb.made => pb.len = InputLength
    /\ BarAlive =>
        /\ pb.pos = RowsInserted
        /\ MagLeq(pb.pos, pb.len)
    /\ (Done /\ result.kind = "ok") =>
        /\ BarAlive
        /\ pb.finished
        /\ pb.pos = RowsCommitted
        /\ pb.pos = pb.len
        /\ InputLength = MagZero => pb.pos = MagZero /\ OkInserts = <<>>

\* an empty input: the bar is finished at position 0 of 0
C14_Witness ==
    /\ Done
    /\ result = Ok(0)
    /\ ticks_data = <<>>
    /\ pb = [made |-> TRUE, len |-> MagZero, pos |-> MagZero, finished |-> TRUE,
             msg |-> "Complete", cleared |-> FALSE]

\* three rows: the bar is finished at position 3 of 3
C14_WitnessRows ==
    /\ Done
    /\ result = Ok(3)
    /\ pb.finished
    /\ pb.pos = SmallMag(3)
    /\ pb.len = SmallMag(3)

\* what a call on this input and with this storage behaviour returns, issues
\* and commits, computed from the input and the failing step alone, with no
\* progress bar in it
Reference ==
    IF NoStructuralError THEN FlatLoad(InputRows, fault)
    ELSE Outcome(StructuralError, <<>>, <<>>)

\* C15: the call with its progress bar and the call without it, on the same
\* input and the same storage behaviour, issue the same storage operations and
\* return the same result: at every moment the operations issued are a prefix
\* of, and on return the operations, the result and the committed rows are,
\* those fixed by the input and the storage behaviour alone, and the counter
\* is the number of rows inserted, with the bar or without.
C15_ProgressObservational ==
    /\ IsPrefix(ops, Reference.ops)
    /\ inserted = Len(OkInserts)
    /\ Done => Outcome(result, ops, table) = Reference
    /\ ~progress => pb = NoBar

\* without the bar, three rows were inserted and counted
C15_Witness ==
    /\ Done
    /\ ~progress
    /\ pb = NoBar
    /\ result = Ok(3)
    /\ Len(table) = 3
    /\ Len(ops) = 7

\* with the bar, the same
C15_WitnessBar ==
    /\ Done
    /\ progress
    /\ pb.finished
    /\ result = Ok(3)
    /\ Len(table) = 3
    /\ Len(ops) = 7

\* the status line was printed
Printed(line) == \E i \in 1..Len(out) : out[i].line = line

\* the bar was finished by finish_with_message: it is finished and its line,
\* with the message, is left on the screen
FinishShown == pb.finished /\ ~pb.cleared

\* C16: the bar is finished with its message and the completion line printed
\* only when COMMIT has succeeded, as the last storage operation; a run in
\* which open, prepare, BEGIN, an insert or COMMIT failed, or that returned an
\* error, has neither: a bar such a run made is cleared, with no message, when
\* the call returns; and the start line is printed only when every record was
\* a dict that could be read and all were normalized, and never in a run whose
\* input has a structural error.
C16_CompletionAfterCommit ==
    /\ (FinishShown \/ pb.msg # "" \/ Printed("successfully inserted")) =>
        /\ ops # <<>>
        /\ ops[Len(ops)] = Op("commit", TRUE, <<>>)
        /\ txn = "committed"
        /\ result.kind = "ok"
    /\ ((\E j \in 1..Len(ops) : ~ops[j].ok) \/ result.kind = "err") =>
        /\ ~FinishShown
        /\ pb.msg = ""
        /\ pb.made => pb.cleared
        /\ ~Printed("successfully inserted")
    /\ Printed("inserting") =>
        /\ NoStructuralError
        /\ tick_records = InputRows
        /\ out[1].line = "inserting"
    /\ ~NoStructuralError => out = <<>>
    /\ ops # <<>> => Printed("inserting")

\* COMMIT succeeded after three rows: the bar is finished and both lines are
\* printed
C16_Witness ==
    /\ Done
    /\ Len(ticks_data) = 3
    /\ Len(ops) = 7
    /\ ops[7] = Op("commit", TRUE, <<>>)
    /\ FinishShown
    /\ pb.msg = "Complete"
    /\ Len(out) = 2
    /\ out[1].line = "inserting"
    /\ out[2].line = "successfully inserted"

\* COMMIT failed after three rows: the start line only, the bar cleared
C16_WitnessFailed ==
    /\ Done
    /\ Len(ticks_data) = 3
    /\ Len(ops) = 7
    /\ ops[7] = Op("commit", FALSE, <<>>)
    /\ pb.cleared
    /\ pb.msg = ""
    /\ Len(out) = 1

\* the columns that hold integers
IntColumns == {c \in Columns : c.ty \in {"i32", "i64"}}

\* row is what the claim asks of the conversion of dict d: an integer column
\* whose key holds a Python integer has that integer when it is in the range
\* of the column type, and the default of the column when it is not
RangeChecked(d, row) ==
    \A c \in IntColumns :
        (c.key \in DOMAIN d /\ d[c.key].t = "int") =>
            LET m == d[c.key].n
            IN  IF c.ty = "i32"
                THEN IF FitsI32(m) THEN I32ToMag(row[c.col]) = m
                     ELSE row[c.col] = c.dflt
                ELSE IF FitsI64(m) THEN row[c.col] = m
                     ELSE row[c.col] = MagZero

\* C18: in every converted row, each 32-bit field (tick, round_num, t_score,
\* ct_score, hp, armor) whose key holds an integer holds that integer unchanged
\* when it is within -2^31 .. 2^31 - 1 and the field's default (0, 100 for hp)
\* when it is outside, and steam_id holds every integer within
\* -2^63 .. 2^63 - 1 unchanged and 0 outside; no field holds the low bits of
\* an integer that is out of its range; and the row inserted is that row.
C18_RangeDefaulted ==
    /\ \A i \in 1..Len(tick_records) : RangeChecked(ticks_data[i].d, tick_records[i])
    /\ \A i \in 1..Len(table) : RangeChecked(ticks_data[i].d, table[i])
    /\ \A c \in IntColumns : c.ty = "i32" => c.dflt = IF c.col = "hp" THEN 100 ELSE 0

\* hp holds 2^31: the row committed has hp = 100
C18_Witness ==
    /\ Done
    /\ Len(table) = 1
    /\ ticks_data[1].isdict
    /\ "hp" \in DOMAIN ticks_data[1].d
    /\ ticks_data[1].d["hp"] = PyInt(Mag(FALSE, 0, 1, 0))
    /\ table[1].hp = 100

\* tick holds -2^31, the least value in range: it is copied
C18_WitnessInRange ==
    /\ Len(tick_records) = 1
    /\ ticks_data[1].isdict
    /\ "tick" \in DOMAIN ticks_data[1].d
    /\ ticks_data[1].d["tick"] = PyInt(Mag(TRUE, 0, 1, 0))
    /\ tick_records[1].tick = I32Min

\* steamID holds 2^63, the least value above the range: steam_id is 0
C18_WitnessSteam ==
    /\ Len(tick_records) = 1
    /\ ticks_data[1].isdict
    /\ "steamID" \in DOMAIN ticks_data[1].d
    /\ ticks_data[1].d["steamID"] = PyInt(Mag(FALSE, 2, 0, 0))
    /\ tick_records[1].steam_id = MagZero

\* C2, for inputs of every length: a call whose records are all dicts and
\* whose storage steps all succeed returns the length N of the input, and
\* exactly N rows of the call are committed.
C2_FullCountAnyLength ==
    AllSucceeded =>
        /\ result.kind = "ok"
        /\ I32ToMag(result.count) = InputLength
        /\ RowsCommitted = InputLength
        /\ table = tick_records
        /\ txn = "committed"

\* C6, for inputs of every length: a call that has returned either succeeded,
\* returning the length of the input with the transaction committed, or
\* failed (with an error, or by panicking), returning no count and leaving
\* nothing committed.
C6_NoPartialSuccessAnyLength ==
    Done =>
        \/ /\ result.kind = "ok"
           /\ I32ToMag(result.count) = InputLength
           /\ txn = "committed"
           /\ RowsCommitted = InputLength
        \/ /\ result.kind \in {"err", "panic"}
           /\ txn # "committed"
           /\ RowsCommitted = MagZero

=============================================================================
